---- MODULE Spec2Model ----
(***************************************************************************)
(* homebridge-sharkiq: the vacuum accessory's debounced polling cache      *)
(* (platformAccessory.ts, kept as src/unnamed/part_000) and the platform's *)
(* startup sequence (src/src/platform.ts).                                 *)
(*                                                                         *)
(* Two specifications share the module:                                    *)
(*   Spec          one SharkIQAccessory after its constructor has run:     *)
(*                 the recurring timer, the debounce timer, the refresh,   *)
(*                 the on-demand docked read and the Go Home command;      *)
(*   PlatformSpec  SharkIQPlatform from construction to the end of the     *)
(*                 didFinishLaunching handler.                             *)
(* JavaScript values are encoded as strings where a field can also hold    *)
(* null: "null", "true", "false", and the enum members by name.            *)
(***************************************************************************)
EXTENDS Integers, Sequences, FiniteSets, TLC

VARIABLES
    \* ---- SharkIQAccessory (src/unnamed/part_000) ----
    invertDockedStatus,    \* constructor argument
    dockedUpdateInterval,  \* constructor argument, milliseconds
    lastKnownStates,       \* [docked, active, powerMode], each "null" at first
    retrieveStatesTimer,   \* handle of the latest debounce timer, 0 = null
    timers,                \* pending debounce timers: handle -> milliseconds left
    intervalLeft,          \* milliseconds until the recurring timer fires
    device,                \* the SharkIqVacuum object's property values
    pollsInFlight,         \* device.update calls of retrieveVacuumStates awaiting
    readsInFlight,         \* device.update calls of retrieveDockedStatus awaiting
    cmdsInFlight,          \* set_operating_mode calls of setGoHome awaiting
    goHomeResets,          \* pending 500 ms reset timers of the Go Home switch
    emitted,               \* updateCharacteristic calls made by the latest step
    returned,              \* value the latest step returned to its caller
    lastOp,                \* the handler step taken last
    prevPolled,            \* history: values derived by the latest successful poll
    windowFetches,         \* history: fetches begun by on-demand triggers since
                           \*          time last advanced: 0, 1, or 2 for "several"
    lastNotified,          \* history: per characteristic of a tracked property,
                           \*          the values of its latest updateCharacteristic
                           \*          call (<<>>: none so far)
    armedFirst,            \* the pending debounce timers armed before the
                           \* recurring timer was last armed
    \* ---- SharkIQPlatform (src/src/platform.ts) ----
    config,                \* PlatformConfig
    storedToken,           \* environment: a persisted, unexpired token exists
    accountDevices,        \* environment: DSNs the account holds
    accessories,           \* cached accessories (UUIDs)
    vacuumDevices,         \* discovered vacuums (DSNs)
    pc,                    \* position of the didFinishLaunching handler
    calls,                 \* startup calls made so far, in order
    loginError,            \* what login() threw, "none" if nothing
    registered,            \* UUIDs passed to registerPlatformAccessories
    unregistered,          \* UUIDs passed to unregisterPlatformAccessories
    pollers,               \* DSN -> interval its SharkIQAccessory was built with
    escaped                \* an exception left the didFinishLaunching handler

accVars == <<invertDockedStatus, dockedUpdateInterval, lastKnownStates,
             retrieveStatesTimer, timers, intervalLeft, device, pollsInFlight,
             readsInFlight, cmdsInFlight, goHomeResets, emitted, returned,
             lastOp, prevPolled, windowFetches, lastNotified, armedFirst>>

platVars == <<config, storedToken, accountDevices, accessories, vacuumDevices,
              pc, calls, loginError, registered, unregistered, pollers, escaped>>

vars == <<accVars, platVars>>

----------------------------------------------------------------------------
(* Bounds of the model *)

\* device.update / set_operating_mode calls that may be awaiting at once
MaxInFlight == 2
\* debounce timer handles the runtime can hand out at once
MaxTimers == 2
\* Go Home commands awaiting or waiting for their reset timer at once
MaxCommands == 1

(* Program constants *)

\* this.config.dockedUpdateInterval || 5000
DefaultInterval == 5000

----------------------------------------------------------------------------
(* Values *)

Null == "null"

JsBool(b) == IF b THEN "true" ELSE "false"

\* raw values of the DOCKED_STATUS property
DockedStatusValues == {0, 1}
\* members of OperatingModes the device reports here: two that count as
\* active, one that does not
OperatingModes == {"START", "STOP", "RETURN_TO_BASE"}
\* members of PowerModes
PowerModes == {"ECO", "NORMAL", "MAX"}

NotFetched == [docked_status |-> -1, operating_mode |-> "unset", power_mode |-> "unset"]

\* updateCharacteristic calls of one step, per characteristic, in call order
NoEvents == [ContactSensorState |-> <<>>, Active |-> <<>>,
             RotationSpeed |-> <<>>, On |-> <<>>]

\* The characteristics retrieveVacuumStates updates: one per tracked property.
TrackedCharacteristics == {"ContactSensorState", "Active", "RotationSpeed"}

----------------------------------------------------------------------------
(* SharkIQAccessory: pure parts *)

\* invertDockedStatus ? docked_status !== 1 : docked_status === 1
VacuumDocked(invert, docked_status) ==
    IF invert THEN docked_status # 1 ELSE docked_status = 1

\* mode === OperatingModes.START || mode === OperatingModes.STOP
VacuumActive(mode) == mode = "START" \/ mode = "STOP"

\* vacuumActive ? Characteristic.Active.ACTIVE : Characteristic.Active.INACTIVE
ActiveCharacteristic(vacuumActive) == IF vacuumActive THEN 1 ELSE 0

\* powerMode === MAX ? 90 : powerMode === ECO ? 30 : 60
RotationSpeed(powerMode) ==
    IF powerMode = "MAX" THEN 90 ELSE IF powerMode = "ECO" THEN 30 ELSE 60

\* the three values retrieveVacuumStates derives from the device object
DerivedStates(invert, dev) ==
    [docked    |-> JsBool(VacuumDocked(invert, dev.docked_status)),
     active    |-> JsBool(VacuumActive(dev.operating_mode)),
     powerMode |-> dev.power_mode]

\* a comparison that takes a value never cached for unchanged
ChangedUnlessFirst(cached, fresh) == cached # Null /\ cached # fresh
\* a comparison that takes every fetched value for changed
ChangedAlways(cached, fresh) == TRUE
\* this.lastKnownStates.P !== fresh
Changed(cached, fresh) == cached # fresh

\* the delay the runtime arms a timer with: setTimeout and setInterval take a
\* delay below 1 ms as 1 ms
TimerDelay(ms) == IF ms < 1 THEN 1 ELSE ms

\* clearTimeout(handle): the timer leaves the pending set, if it is in it
ClearTimeout(pending, handle) ==
    [h \in DOMAIN pending \ {handle} |-> pending[h]]

FreeHandles(pending) == (1..MaxTimers) \ DOMAIN pending

Min(S) == CHOOSE x \in S : \A y \in S : x <= y

\* setTimeout(callback, ms): a new pending timer under a fresh handle
SetTimeout(pending, ms) ==
    LET h == Min(FreeHandles(pending))
    IN  [handle |-> h,
         pending |-> [k \in DOMAIN pending \cup {h} |->
                        IF k = h THEN TimerDelay(ms) ELSE pending[k]]]

\* a debounce that arms a new timer and leaves the pending one in place
DebounceNoClear(pending, handle, ms) == SetTimeout(pending, ms)
\* retrieveVacuumStatesWithDebounce: clear the pending timer, arm a new one
Debounce(pending, handle, ms) ==
    SetTimeout(IF handle # 0 THEN ClearTimeout(pending, handle) ELSE pending, ms)

InFlight == pollsInFlight + readsInFlight

\* counting none, one, several
CountUp(n) == IF n = 0 THEN 1 ELSE 2

----------------------------------------------------------------------------
(* SharkIQAccessory: handlers.  A step that awaits ends where the await     *)
(* begins; the continuation after the await is a step of its own.           *)

platIdle == UNCHANGED platVars

\* Time passes up to the next timer that is due; no timer is overdue.
Advance ==
    LET lefts == {intervalLeft} \cup {timers[h] : h \in DOMAIN timers}
        d     == Min(lefts)
    IN  /\ d > 0
        /\ intervalLeft' = intervalLeft - d
        /\ timers' = [h \in DOMAIN timers |-> timers[h] - d]
        /\ windowFetches' = 0
        /\ emitted' = NoEvents
        /\ returned' = "none"
        /\ lastOp' = "advance"
        /\ UNCHANGED <<invertDockedStatus, dockedUpdateInterval, lastNotified, armedFirst, lastKnownStates,
                       retrieveStatesTimer, device, pollsInFlight, readsInFlight,
                       cmdsInFlight, goHomeResets, prevPolled>>
        /\ platIdle

\* Time passes for half of a full delay, from an instant at which every
\* timer has its full delay left.
AdvanceWithinWindow ==
    LET lefts == {intervalLeft} \cup {timers[h] : h \in DOMAIN timers}
        d     == TimerDelay(dockedUpdateInterval) \div 2
    IN  /\ d > 0
        /\ lefts = {TimerDelay(dockedUpdateInterval)}
        /\ intervalLeft' = intervalLeft - d
        /\ timers' = [h \in DOMAIN timers |-> timers[h] - d]
        /\ windowFetches' = 0
        /\ emitted' = NoEvents
        /\ returned' = "none"
        /\ lastOp' = "advance"
        /\ UNCHANGED <<invertDockedStatus, dockedUpdateInterval, lastNotified,
                       armedFirst, lastKnownStates, retrieveStatesTimer, device,
                       pollsInFlight, readsInFlight, cmdsInFlight, goHomeResets,
                       prevPolled>>
        /\ platIdle

\* A recurring timer whose callback runs ahead of the timers armed before it.
IntervalTickFirst ==
    /\ intervalLeft = 0
    /\ FreeHandles(IF retrieveStatesTimer # 0
                     THEN ClearTimeout(timers, retrieveStatesTimer)
                     ELSE timers) # {}
    /\ LET armed == Debounce(timers, retrieveStatesTimer, dockedUpdateInterval)
       IN  /\ timers' = armed.pending
           /\ retrieveStatesTimer' = armed.handle
           /\ armedFirst' = DOMAIN armed.pending
    /\ intervalLeft' = TimerDelay(dockedUpdateInterval)
    /\ emitted' = NoEvents
    /\ returned' = "none"
    /\ lastOp' = "intervalTick"
    /\ UNCHANGED <<invertDockedStatus, dockedUpdateInterval, lastNotified,
                   lastKnownStates, device, pollsInFlight, readsInFlight,
                   cmdsInFlight, goHomeResets, prevPolled, windowFetches>>
    /\ platIdle

\* The setInterval callback of retrieveVacuumStatesWithInterval: it calls
\* retrieveVacuumStatesWithDebounce, and the interval re-arms itself after
\* the callback, so behind every timer pending by then.  Timers due at the
\* same instant run in the order they were armed.
IntervalTick ==
    /\ intervalLeft = 0
    /\ \A h \in armedFirst : timers[h] # 0
    /\ FreeHandles(IF retrieveStatesTimer # 0
                     THEN ClearTimeout(timers, retrieveStatesTimer)
                     ELSE timers) # {}
    /\ LET armed == Debounce(timers, retrieveStatesTimer, dockedUpdateInterval)
       IN  /\ timers' = armed.pending
           /\ retrieveStatesTimer' = armed.handle
           /\ armedFirst' = DOMAIN armed.pending
    /\ intervalLeft' = TimerDelay(dockedUpdateInterval)
    /\ emitted' = NoEvents
    /\ returned' = "none"
    /\ lastOp' = "intervalTick"
    /\ UNCHANGED <<invertDockedStatus, dockedUpdateInterval, lastNotified, lastKnownStates,
                   device, pollsInFlight, readsInFlight, cmdsInFlight,
                   goHomeResets, prevPolled, windowFetches>>
    /\ platIdle

\* retrieveVacuumStatesWithDebounce called by something other than the
\* recurring timer (the method is public): the pending timer, if any, is
\* cleared and a new one armed, behind the recurring timer.
RetrieveVacuumStatesWithDebounceCall ==
    /\ FreeHandles(IF retrieveStatesTimer # 0
                     THEN ClearTimeout(timers, retrieveStatesTimer)
                     ELSE timers) # {}
    /\ LET armed == Debounce(timers, retrieveStatesTimer, dockedUpdateInterval)
       IN  /\ timers' = armed.pending
           /\ retrieveStatesTimer' = armed.handle
           /\ armedFirst' = (armedFirst \cap DOMAIN armed.pending) \ {armed.handle}
    /\ lastOp' = IF retrieveStatesTimer \in DOMAIN timers
                 THEN "debounceRescheduled" ELSE "debounceScheduled"
    /\ emitted' = NoEvents
    /\ returned' = "none"
    /\ UNCHANGED <<invertDockedStatus, dockedUpdateInterval, lastNotified,
                   lastKnownStates, intervalLeft, device, pollsInFlight,
                   readsInFlight, cmdsInFlight, goHomeResets, prevPolled,
                   windowFetches>>
    /\ platIdle

\* The setTimeout callback of retrieveVacuumStatesWithDebounce fires and calls
\* retrieveVacuumStates, which runs up to its await of device.update.  When
\* this timer and the recurring timer are due at the same instant, the one
\* armed first runs first.
DebounceFire ==
    /\ \E h \in DOMAIN timers :
          /\ timers[h] = 0
          /\ h \in armedFirst \/ intervalLeft # 0
          /\ timers' = ClearTimeout(timers, h)
          /\ armedFirst' = armedFirst \ {h}
    /\ InFlight < MaxInFlight
    /\ pollsInFlight' = pollsInFlight + 1
    /\ emitted' = NoEvents
    /\ returned' = "none"
    /\ lastOp' = "debounceFire"
    /\ UNCHANGED <<invertDockedStatus, dockedUpdateInterval, lastNotified, lastKnownStates,
                   retrieveStatesTimer, intervalLeft, device, readsInFlight,
                   cmdsInFlight, goHomeResets, prevPolled, windowFetches>>
    /\ platIdle

\* retrieveVacuumStates after device.update resolved: derive the three
\* values, notify and cache each one that changed.
RetrieveVacuumStatesOk ==
    /\ pollsInFlight > 0
    /\ pollsInFlight' = pollsInFlight - 1
    /\ \E ds \in DockedStatusValues, om \in OperatingModes, pm \in PowerModes :
          /\ device' = [docked_status |-> ds, operating_mode |-> om, power_mode |-> pm]
          /\ LET fresh    == DerivedStates(invertDockedStatus, device')
                 dockedCh == Changed(lastKnownStates.docked, fresh.docked)
                 activeCh == Changed(lastKnownStates.active, fresh.active)
                 powerCh  == Changed(lastKnownStates.powerMode, fresh.powerMode)
             IN  /\ emitted' =
                       [NoEvents EXCEPT
                          !.ContactSensorState =
                              IF dockedCh
                              THEN <<VacuumDocked(invertDockedStatus, ds)>> ELSE <<>>,
                          !.Active =
                              IF activeCh
                              THEN <<ActiveCharacteristic(VacuumActive(om))>> ELSE <<>>,
                          !.RotationSpeed =
                              IF powerCh THEN <<RotationSpeed(pm)>> ELSE <<>>]
                 /\ lastKnownStates' =
                       [docked    |-> IF dockedCh THEN fresh.docked
                                                 ELSE lastKnownStates.docked,
                        active    |-> IF activeCh THEN fresh.active
                                                 ELSE lastKnownStates.active,
                        powerMode |-> IF powerCh THEN fresh.powerMode
                                                ELSE lastKnownStates.powerMode]
                 /\ prevPolled' = fresh
    /\ lastNotified' =
          [c \in TrackedCharacteristics |->
             IF emitted'[c] # << >> THEN emitted'[c] ELSE lastNotified[c]]
    /\ returned' = "none"
    /\ lastOp' = "retrieveVacuumStatesOk"
    /\ UNCHANGED <<invertDockedStatus, dockedUpdateInterval, armedFirst, retrieveStatesTimer,
                   timers, intervalLeft, readsInFlight, cmdsInFlight,
                   goHomeResets, windowFetches>>
    /\ platIdle

\* a catch of retrieveVacuumStates that drops the cache on failure
RetrieveVacuumStatesFailDropsCache ==
    /\ pollsInFlight > 0
    /\ pollsInFlight' = pollsInFlight - 1
    /\ lastKnownStates' = [docked |-> Null, active |-> Null, powerMode |-> Null]
    /\ emitted' = NoEvents
    /\ returned' = "none"
    /\ lastOp' = "retrieveVacuumStatesFail"
    /\ UNCHANGED <<invertDockedStatus, dockedUpdateInterval, lastNotified, armedFirst, retrieveStatesTimer,
                   timers, intervalLeft, device, readsInFlight, cmdsInFlight,
                   goHomeResets, prevPolled, windowFetches>>
    /\ platIdle

\* retrieveVacuumStates after device.update rejected: the catch logs the error
RetrieveVacuumStatesFail ==
    /\ pollsInFlight > 0
    /\ pollsInFlight' = pollsInFlight - 1
    /\ emitted' = NoEvents
    /\ returned' = "none"
    /\ lastOp' = "retrieveVacuumStatesFail"
    /\ UNCHANGED <<invertDockedStatus, dockedUpdateInterval, lastNotified, armedFirst, lastKnownStates,
                   retrieveStatesTimer, timers, intervalLeft, device,
                   readsInFlight, cmdsInFlight, goHomeResets, prevPolled,
                   windowFetches>>
    /\ platIdle

\* retrieveDockedStatus (the ContactSensorState onGet handler) up to its await
\* of device.update(DOCKED_STATUS)
RetrieveDockedStatusCall ==
    /\ InFlight < MaxInFlight
    /\ readsInFlight' = readsInFlight + 1
    /\ windowFetches' = CountUp(windowFetches)
    /\ emitted' = NoEvents
    /\ returned' = "none"
    /\ lastOp' = "retrieveDockedStatus"
    /\ UNCHANGED <<invertDockedStatus, dockedUpdateInterval, lastNotified, armedFirst, lastKnownStates,
                   retrieveStatesTimer, timers, intervalLeft, device,
                   pollsInFlight, cmdsInFlight, goHomeResets, prevPolled>>
    /\ platIdle

\* A docked read that also stored what it fetched in lastKnownStates.
RetrieveDockedStatusOkCaches ==
    /\ readsInFlight > 0
    /\ readsInFlight' = readsInFlight - 1
    /\ \E ds \in DockedStatusValues :
          /\ device' = [device EXCEPT !.docked_status = ds]
          /\ returned' = JsBool(VacuumDocked(invertDockedStatus, ds))
          /\ lastKnownStates' =
                [lastKnownStates EXCEPT
                   !.docked = JsBool(VacuumDocked(invertDockedStatus, ds))]
    /\ emitted' = NoEvents
    /\ lastOp' = "retrieveDockedStatusOk"
    /\ UNCHANGED <<invertDockedStatus, dockedUpdateInterval, lastNotified,
                   armedFirst, retrieveStatesTimer, timers, intervalLeft,
                   pollsInFlight, cmdsInFlight, goHomeResets, prevPolled,
                   windowFetches>>
    /\ platIdle

\* retrieveDockedStatus after device.update resolved: the fetched value is
\* returned
RetrieveDockedStatusOk ==
    /\ readsInFlight > 0
    /\ readsInFlight' = readsInFlight - 1
    /\ \E ds \in DockedStatusValues :
          /\ device' = [device EXCEPT !.docked_status = ds]
          /\ returned' = JsBool(VacuumDocked(invertDockedStatus, ds))
    /\ emitted' = NoEvents
    /\ lastOp' = "retrieveDockedStatusOk"
    /\ UNCHANGED <<invertDockedStatus, dockedUpdateInterval, lastNotified, armedFirst, lastKnownStates,
                   retrieveStatesTimer, timers, intervalLeft, pollsInFlight,
                   cmdsInFlight, goHomeResets, prevPolled, windowFetches>>
    /\ platIdle

\* retrieveDockedStatus after device.update rejected: log, return false
RetrieveDockedStatusFail ==
    /\ readsInFlight > 0
    /\ readsInFlight' = readsInFlight - 1
    /\ returned' = "false"
    /\ emitted' = NoEvents
    /\ lastOp' = "retrieveDockedStatusFail"
    /\ UNCHANGED <<invertDockedStatus, dockedUpdateInterval, lastNotified, armedFirst, lastKnownStates,
                   retrieveStatesTimer, timers, intervalLeft, device,
                   pollsInFlight, cmdsInFlight, goHomeResets, prevPolled,
                   windowFetches>>
    /\ platIdle

\* setGoHome(value) up to its await of set_operating_mode(RETURN_TO_BASE);
\* with a falsy value it returns at once
SetGoHomeCall ==
    /\ \E value \in BOOLEAN :
          IF value
          THEN /\ cmdsInFlight + goHomeResets < MaxCommands
               /\ cmdsInFlight' = cmdsInFlight + 1
               /\ lastOp' = "setGoHomeOn"
          ELSE /\ cmdsInFlight' = cmdsInFlight
               /\ lastOp' = "setGoHomeOff"
    /\ emitted' = NoEvents
    /\ returned' = "none"
    /\ UNCHANGED <<invertDockedStatus, dockedUpdateInterval, lastNotified, armedFirst, lastKnownStates,
                   retrieveStatesTimer, timers, intervalLeft, device,
                   pollsInFlight, readsInFlight, goHomeResets, prevPolled,
                   windowFetches>>
    /\ platIdle

\* a setGoHome whose catch block leaves the method: the reset of the switch is
\* armed after an acknowledged command only
SetGoHomeSettledNoResetOnFailure ==
    /\ cmdsInFlight > 0
    /\ cmdsInFlight' = cmdsInFlight - 1
    /\ \E ok \in BOOLEAN :
          /\ lastOp' = IF ok THEN "setGoHomeSent" ELSE "setGoHomeFailed"
          /\ goHomeResets' = IF ok THEN goHomeResets + 1 ELSE goHomeResets
    /\ emitted' = NoEvents
    /\ returned' = "none"
    /\ UNCHANGED <<invertDockedStatus, dockedUpdateInterval, lastNotified,
                   armedFirst, lastKnownStates, retrieveStatesTimer, timers,
                   intervalLeft, device, pollsInFlight, readsInFlight,
                   prevPolled, windowFetches>>
    /\ platIdle

\* setGoHome after set_operating_mode settled (resolved: log info; rejected:
\* log error): the 500 ms reset timer of the switch is armed
SetGoHomeSettled ==
    /\ cmdsInFlight > 0
    /\ cmdsInFlight' = cmdsInFlight - 1
    /\ goHomeResets' = goHomeResets + 1
    /\ \E ok \in BOOLEAN :
          lastOp' = IF ok THEN "setGoHomeSent" ELSE "setGoHomeFailed"
    /\ emitted' = NoEvents
    /\ returned' = "none"
    /\ UNCHANGED <<invertDockedStatus, dockedUpdateInterval, lastNotified, armedFirst, lastKnownStates,
                   retrieveStatesTimer, timers, intervalLeft, device,
                   pollsInFlight, readsInFlight, prevPolled, windowFetches>>
    /\ platIdle

\* the reset timer of setGoHome fires: the Go Home switch is set to off
GoHomeReset ==
    /\ goHomeResets > 0
    /\ goHomeResets' = goHomeResets - 1
    /\ emitted' = [NoEvents EXCEPT !.On = <<FALSE>>]
    /\ returned' = "none"
    /\ lastOp' = "goHomeReset"
    /\ UNCHANGED <<invertDockedStatus, dockedUpdateInterval, lastNotified, armedFirst, lastKnownStates,
                   retrieveStatesTimer, timers, intervalLeft, device,
                   pollsInFlight, readsInFlight, cmdsInFlight, prevPolled,
                   windowFetches>>
    /\ platIdle

----------------------------------------------------------------------------
(* SharkIQPlatform: configuration and environment *)

\* serial numbers of the vacuums that can appear in the configuration or in
\* the account
DSNs == {"A", "B"}

\* hap.uuid.generate(dsn): one UUID per DSN
Uuid(dsn) == <<"uuid", dsn>>

\* accessories Homebridge may restore from its cache: one of a vacuum still
\* in use, one of a vacuum ("Z") that is gone
CachedUuids == {Uuid("A"), Uuid("Z")}

\* config.vacuums: missing (not an array), or an array of DSNs
VacuumConfigs ==
    {[isArray |-> FALSE, items |-> {}]}
      \cup {[isArray |-> TRUE, items |-> s] : s \in SUBSET DSNs}

\* config.email, config.password, config.oAuthCode: unset/empty or set
Credentials == {"", "set"}

\* config.dockedUpdateInterval: absent ({}), or a number ({n})
ConfiguredIntervals == {{}, {0}, {-1}, {2}}

\* the configured interval the accessory is followed under: none, so the
\* default (both timers are armed with the same delay whatever its value)
AccessoryIntervals == {{}}

Configs ==
    [vacuums : VacuumConfigs, email : Credentials, password : Credentials,
     oAuthCode : Credentials, dockedUpdateInterval : ConfiguredIntervals,
     invertDockedStatus : BOOLEAN]

----------------------------------------------------------------------------
(* SharkIQPlatform: pure parts *)

\* !Array.isArray(serialNumbers), without the length test
NoSerialNumbersArrayOnly(serialNumbers) == ~serialNumbers.isArray
\* !Array.isArray(serialNumbers) || serialNumbers.length === 0
NoSerialNumbers(serialNumbers) ==
    ~serialNumbers.isArray \/ Cardinality(serialNumbers.items) = 0

\* !email && !oAuthCode
LoginGuardThrows(email, oAuthCode) == email = "" /\ oAuthCode = ""

\* this.config.dockedUpdateInterval || 5000
UsedInterval(configured) ==
    IF configured = {} \/ configured = {0}
    THEN DefaultInterval
    ELSE CHOOSE n \in configured : TRUE

\* devices.filter((device) => serialNumbers.includes(device._dsn))
MatchingDevices(devices, serialNumbers) == devices \cap serialNumbers.items

\* discoverDevices: the accessories created for vacuums that have no cached one
DevicesToRegister(vacuums, cached) == {Uuid(d) : d \in vacuums} \ cached

\* discoverDevices without the splice of a claimed accessory
UnusedAccessoriesNoSplice(vacuums, cached) == cached
\* discoverDevices: the cached accessories no vacuum claimed
UnusedAccessories(vacuums, cached) == cached \ {Uuid(d) : d \in vacuums}

\* Login.checkLogin (src/login.ts is not part of the sources at hand; this is
\* what spec sections 4.2 and 8 state): asymmetric email/password is a
\* ConfigurationError; a stored unexpired token is reused; otherwise a fresh
\* login with email+password or with the OAuth code, which can fail;
\* otherwise a ConfigurationError.
CheckLoginOutcomes(email, password, oAuthCode, token) ==
    IF (email = "") # (password = "") THEN {"ConfigurationError"}
    ELSE IF token THEN {"ok"}
    ELSE IF (email # "" /\ password # "") \/ oAuthCode # ""
         THEN {"ok", "AuthenticationError", "TransportError"}
    ELSE {"ConfigurationError"}

\* aylaApi.sign_in() and aylaApi.get_devices(): a network call each
NetworkOutcomes == {"ok", "AuthenticationError", "TransportError"}

----------------------------------------------------------------------------
(* SharkIQPlatform: the startup sequence *)

accIdle == UNCHANGED accVars

\* configureAccessory: Homebridge restores one cached accessory before launch
ConfigureAccessory ==
    /\ pc = "constructed"
    /\ \E u \in CachedUuids \ accessories : accessories' = accessories \cup {u}
    /\ UNCHANGED <<config, storedToken, accountDevices, vacuumDevices, pc, calls,
                   loginError, registered, unregistered, pollers, escaped>>
    /\ accIdle

\* the handler without the try/catch of initializePlatform and of the
\* didFinishLaunching callback: the error of the credential guard leaves it
DidFinishLaunchingUncaught ==
    /\ pc = "constructed"
    /\ IF NoSerialNumbers(config.vacuums)
       THEN /\ pc' = "done"
            /\ UNCHANGED <<calls, loginError, escaped>>
       ELSE IF LoginGuardThrows(config.email, config.oAuthCode)
       THEN /\ loginError' = "ConfigurationError"
            /\ escaped' = TRUE
            /\ pc' = "done"
            /\ UNCHANGED calls
       ELSE /\ calls' = Append(calls, "checkLogin")
            /\ pc' = "checkLogin"
            /\ UNCHANGED <<loginError, escaped>>
    /\ UNCHANGED <<config, storedToken, accountDevices, accessories,
                   vacuumDevices, registered, unregistered, pollers>>
    /\ accIdle

\* didFinishLaunching -> initializePlatform -> login, up to the first await:
\* no DSNs configured: log and return; the credential guard of login throws:
\* caught and logged by initializePlatform; otherwise login.checkLogin() is
\* called and awaited
DidFinishLaunching ==
    /\ pc = "constructed"
    /\ IF NoSerialNumbers(config.vacuums)
       THEN /\ pc' = "done"
            /\ UNCHANGED <<calls, loginError>>
       ELSE IF LoginGuardThrows(config.email, config.oAuthCode)
       THEN /\ loginError' = "ConfigurationError"
            /\ pc' = "done"
            /\ UNCHANGED calls
       ELSE /\ calls' = Append(calls, "checkLogin")
            /\ pc' = "checkLogin"
            /\ UNCHANGED loginError
    /\ UNCHANGED <<config, storedToken, accountDevices, accessories,
                   vacuumDevices, registered, unregistered, pollers, escaped>>
    /\ accIdle

\* login() with the result of checkLogin not awaited: sign_in is called
\* whatever checkLogin does
CheckLoginReturnNotAwaited ==
    /\ pc = "checkLogin"
    /\ \E outcome \in CheckLoginOutcomes(config.email, config.password,
                                          config.oAuthCode, storedToken) :
          /\ calls' = Append(calls, "sign_in")
          /\ pc' = "sign_in"
          /\ UNCHANGED loginError
    /\ UNCHANGED <<config, storedToken, accountDevices, accessories,
                   vacuumDevices, registered, unregistered, pollers, escaped>>
    /\ accIdle

\* login() after checkLogin settled: resolved: sign_in is called and awaited;
\* rejected: the catch logs and rethrows, initializePlatform catches and logs
CheckLoginReturn ==
    /\ pc = "checkLogin"
    /\ \E outcome \in CheckLoginOutcomes(config.email, config.password,
                                          config.oAuthCode, storedToken) :
          IF outcome = "ok"
          THEN /\ calls' = Append(calls, "sign_in")
               /\ pc' = "sign_in"
               /\ UNCHANGED loginError
          ELSE /\ loginError' = outcome
               /\ pc' = "done"
               /\ UNCHANGED calls
    /\ UNCHANGED <<config, storedToken, accountDevices, accessories,
                   vacuumDevices, registered, unregistered, pollers, escaped>>
    /\ accIdle

\* login() with a rejected sign_in logged and not rethrown: get_devices is
\* called all the same
SignInReturnFailureSwallowed ==
    /\ pc = "sign_in"
    /\ \E outcome \in NetworkOutcomes :
          /\ calls' = Append(calls, "get_devices")
          /\ pc' = "get_devices"
          /\ loginError' = IF outcome = "ok" THEN loginError ELSE outcome
    /\ UNCHANGED <<config, storedToken, accountDevices, accessories,
                   vacuumDevices, registered, unregistered, pollers, escaped>>
    /\ accIdle

\* login() after sign_in settled: resolved: get_devices is called and awaited;
\* rejected: the catch logs and rethrows, initializePlatform catches and logs
SignInReturn ==
    /\ pc = "sign_in"
    /\ \E outcome \in NetworkOutcomes :
          IF outcome = "ok"
          THEN /\ calls' = Append(calls, "get_devices")
               /\ pc' = "get_devices"
               /\ UNCHANGED loginError
          ELSE /\ loginError' = outcome
               /\ pc' = "done"
               /\ UNCHANGED calls
    /\ UNCHANGED <<config, storedToken, accountDevices, accessories,
                   vacuumDevices, registered, unregistered, pollers, escaped>>
    /\ accIdle

\* login() after get_devices settled, and the rest of initializePlatform:
\* filter the devices by the configured DSNs and, if any match,
\* discoverDevices: one SharkIQAccessory per vacuum, register the new
\* accessories, unregister the unused cached ones
GetDevicesReturn ==
    /\ pc = "get_devices"
    /\ pc' = "done"
    /\ \E outcome \in NetworkOutcomes :
          IF outcome = "ok"
          THEN LET matching == MatchingDevices(accountDevices, config.vacuums)
               IN  /\ vacuumDevices' = matching
                   /\ pollers' =
                         [d \in matching |->
                            [invertDockedStatus   |-> config.invertDockedStatus,
                             dockedUpdateInterval |->
                                 UsedInterval(config.dockedUpdateInterval)]]
                   /\ IF matching = {}
                      THEN UNCHANGED <<accessories, registered, unregistered>>
                      ELSE /\ registered' = DevicesToRegister(matching, accessories)
                           /\ accessories' =
                                 accessories \cup DevicesToRegister(matching, accessories)
                           /\ unregistered' = UnusedAccessories(matching, accessories)
                   /\ UNCHANGED loginError
          ELSE /\ loginError' = outcome
               /\ UNCHANGED <<vacuumDevices, pollers, accessories, registered,
                              unregistered>>
    /\ UNCHANGED <<config, storedToken, accountDevices, calls, escaped>>
    /\ accIdle

----------------------------------------------------------------------------
(* Specifications *)

\* the accessory's fields as its constructor leaves them, for a given pair of
\* constructor arguments; the recurring timer is armed (updateStates, which
\* the constructor also calls, is not in the sources)
AccessoryConstructed(invert, interval) ==
    /\ invertDockedStatus = invert
    /\ dockedUpdateInterval = interval
    /\ lastKnownStates = [docked |-> Null, active |-> Null, powerMode |-> Null]
    /\ retrieveStatesTimer = 0
    /\ timers = << >>
    /\ intervalLeft = TimerDelay(interval)
    /\ device = NotFetched
    /\ pollsInFlight = 0
    /\ readsInFlight = 0
    /\ cmdsInFlight = 0
    /\ goHomeResets = 0
    /\ emitted = NoEvents
    /\ returned = "none"
    /\ lastOp = "constructor"
    /\ prevPolled = [docked |-> Null, active |-> Null, powerMode |-> Null]
    /\ windowFetches = 0
    /\ lastNotified = [c \in TrackedCharacteristics |-> << >>]
    /\ armedFirst = {}

\* the platform's fields as its constructor leaves them
PlatformConstructed(cfg, token, devices) ==
    /\ config = cfg
    /\ storedToken = token
    /\ accountDevices = devices
    /\ accessories = {}
    /\ vacuumDevices = {}
    /\ pc = "constructed"
    /\ calls = << >>
    /\ loginError = "none"
    /\ registered = {}
    /\ unregistered = {}
    /\ pollers = << >>
    /\ escaped = FALSE

DefaultConfig ==
    [vacuums |-> [isArray |-> TRUE, items |-> {"A"}], email |-> "set",
     password |-> "set", oAuthCode |-> "", dockedUpdateInterval |-> {},
     invertDockedStatus |-> FALSE]

\* One accessory, built with the arguments discoverDevices can pass it.
Init ==
    /\ \E invert \in BOOLEAN, c \in AccessoryIntervals :
          AccessoryConstructed(invert, UsedInterval(c))
    /\ PlatformConstructed(DefaultConfig, FALSE, {"A"})

Next ==
    \/ Advance
    \/ IntervalTick
    \/ DebounceFire
    \/ RetrieveVacuumStatesOk
    \/ RetrieveVacuumStatesFail
    \/ RetrieveDockedStatusCall
    \/ RetrieveDockedStatusOk
    \/ RetrieveDockedStatusFail
    \/ SetGoHomeCall
    \/ SetGoHomeSettled
    \/ GoHomeReset

Spec == Init /\ [][Next]_vars

\* The accessory with further callers of retrieveVacuumStatesWithDebounce,
\* at the instants timers are due and halfway between them.  Go Home commands
\* are left out: setGoHome reads and writes nothing of the scheduler.
TriggerNext ==
    \/ Advance
    \/ AdvanceWithinWindow
    \/ IntervalTick
    \/ RetrieveVacuumStatesWithDebounceCall
    \/ DebounceFire
    \/ RetrieveVacuumStatesOk
    \/ RetrieveVacuumStatesFail
    \/ RetrieveDockedStatusCall
    \/ RetrieveDockedStatusOk
    \/ RetrieveDockedStatusFail

TriggerSpec == Init /\ [][TriggerNext]_vars

\* The accessory with the recurring timer as the only caller of
\* retrieveVacuumStatesWithDebounce and with Go Home commands.  Docked reads
\* are left out: they meet the scheduler only in the bound MaxInFlight.
FairNext ==
    \/ Advance
    \/ IntervalTick
    \/ DebounceFire
    \/ RetrieveVacuumStatesOk
    \/ RetrieveVacuumStatesFail
    \/ SetGoHomeCall
    \/ SetGoHomeSettled
    \/ GoHomeReset

\* Time passes, the event loop runs a timer callback that stays due, and
\* every pending call of the device settles.
Fairness ==
    /\ WF_vars(Advance)
    /\ WF_vars(IntervalTick)
    /\ WF_vars(DebounceFire)
    /\ WF_vars(RetrieveVacuumStatesOk \/ RetrieveVacuumStatesFail)
    /\ WF_vars(SetGoHomeSettled)
    /\ WF_vars(GoHomeReset)

FairSpec == Init /\ [][FairNext]_vars /\ Fairness

\* The platform, for every configuration and environment.
PlatformInit ==
    /\ \E cfg \in Configs, token \in BOOLEAN, devices \in SUBSET DSNs :
          PlatformConstructed(cfg, token, devices)
    /\ AccessoryConstructed(FALSE, DefaultInterval)

PlatformNext ==
    \/ ConfigureAccessory
    \/ DidFinishLaunching
    \/ CheckLoginReturn
    \/ SignInReturn
    \/ GetDevicesReturn

PlatformSpec == PlatformInit /\ [][PlatformNext]_vars

----------------------------------------------------------------------------
(* Claims about the accessory, under Spec *)

\* the notifications a successful poll owes for one property: one carrying
\* the new value if the value differs from the one the preceding successful
\* poll derived (or there was none), else none
Owed(before, after, value) == IF after # before THEN <<value>> ELSE << >>

\* C1: a successful poll notifies property P exactly once, with the new
\* value, if the value it fetched differs from the value cached by the
\* preceding successful poll or P is seen for the first time; otherwise it
\* notifies nothing for P.
C1_NotifyIffChanged ==
    [][lastOp' = "retrieveVacuumStatesOk" =>
         /\ emitted'.ContactSensorState =
              Owed(prevPolled.docked, prevPolled'.docked,
                   prevPolled'.docked = "true")
         /\ emitted'.Active =
              Owed(prevPolled.active, prevPolled'.active,
                   ActiveCharacteristic(prevPolled'.active = "true"))
         /\ emitted'.RotationSpeed =
              Owed(prevPolled.powerMode, prevPolled'.powerMode,
                   RotationSpeed(prevPolled'.powerMode))
         /\ prevPolled' = DerivedStates(invertDockedStatus, device')]_vars

\* a poll after the first that found the docked state changed and nothing
\* else: one docked notification, no other
C1_Witness ==
    /\ lastOp = "retrieveVacuumStatesOk"
    /\ emitted.ContactSensorState = <<FALSE>>
    /\ emitted.Active = << >>
    /\ emitted.RotationSpeed = << >>
    /\ lastKnownStates.docked = "false"

\* C2: a refresh whose fetch fails leaves lastKnownStates unchanged and
\* notifies nothing.
C2_FailedRefreshChangesNothing ==
    [][lastOp' = "retrieveVacuumStatesFail" =>
         /\ lastKnownStates' = lastKnownStates
         /\ emitted' = NoEvents]_vars

\* a failed refresh after a successful one has filled the cache
C2_Witness ==
    /\ lastOp = "retrieveVacuumStatesFail"
    /\ lastKnownStates.docked # Null
    /\ lastKnownStates.powerMode \in PowerModes

\* C3 (as claimed): at most one device.update is in flight at any time.
C3_AtMostOneFetchInFlight == pollsInFlight + readsInFlight <= 1

\* the debounced refresh armed at this instant, counted as the one fetch it
\* will make
ArmedNow ==
    IF \E h \in DOMAIN timers : timers[h] = TimerDelay(dockedUpdateInterval)
    THEN 1 ELSE 0

\* C4 (as claimed): the triggers of one instant (timer ticks and on-demand
\* reads with no time passing between them, hence within less than one
\* debounce window) cause one fetch, never more.
C4_OneFetchPerWindow == windowFetches + ArmedNow <= 1

\* C5 (as claimed): the docked-status getter performs no fetch and returns
\* the cached value.
C5_ReadServedFromCache ==
    /\ readsInFlight = 0
    /\ lastOp \in {"retrieveDockedStatusOk", "retrieveDockedStatusFail"}
         => returned = lastKnownStates.docked

\* C8 (as claimed): the step of setGoHome that follows the acknowledged
\* RETURN_TO_BASE command starts a refresh: a device.update, or a debounced
\* refresh armed with the full delay.
C8_CommandTriggersRefresh ==
    [][lastOp' = "setGoHomeSent" =>
         \/ pollsInFlight' > pollsInFlight
         \/ readsInFlight' > readsInFlight
         \/ /\ retrieveStatesTimer' \in DOMAIN timers'
            /\ retrieveStatesTimer' # retrieveStatesTimer
                 \/ timers' # timers]_vars

----------------------------------------------------------------------------
(* Claims about the platform, under PlatformSpec *)

Called(name) == \E i \in 1..Len(calls) : calls[i] = name

\* the configuration names at least one vacuum
DevicesConfigured == config.vacuums.isArray /\ config.vacuums.items # {}

\* exactly one of email and password is set
Asymmetric == (config.email = "") # (config.password = "")

\* neither an email+password pair nor an OAuth code is configured
NoCredentials ==
    /\ ~(config.email # "" /\ config.password # "")
    /\ config.oAuthCode = ""

C7_NoCredentialsFailBeforeCheckLogin ==
    (NoCredentials /\ DevicesConfigured) =>
        /\ calls = << >>
        /\ pc # "constructed" =>
              /\ pc = "done"
              /\ loginError = "ConfigurationError"
              /\ vacuumDevices = {}
              /\ registered = {}
              /\ unregistered = {}

\* C9 (as claimed): the interval every SharkIQAccessory is built with, and
\* arms its recurring timer and its debounce timer with, is a positive
\* integer.
C9_ArmedIntervalPositive ==
    \A d \in DOMAIN pollers : pollers[d].dockedUpdateInterval \in Nat \ {0}

\* C10: with no DSN configured (vacuums missing or empty) initialization
\* ends without an error, without a login or network call, with no managed
\* vacuum, no accessory built, registered or unregistered.
C10_EmptyDeviceSetIsQuiet ==
    (~DevicesConfigured /\ pc # "constructed") =>
        /\ pc = "done"
        /\ calls = << >>
        /\ loginError = "none"
        /\ ~escaped
        /\ vacuumDevices = {}
        /\ registered = {}
        /\ unregistered = {}
        /\ DOMAIN pollers = {}

\* initialization has ended for an empty vacuums array, in an account that
\* holds devices, with valid credentials and a cached accessory
C10_Witness ==
    /\ config.vacuums = [isArray |-> TRUE, items |-> {}]
    /\ config.email = "set" /\ config.password = "set"
    /\ accountDevices # {}
    /\ accessories # {}
    /\ pc = "done"

\* C11: a failure of any startup step (credential guard, checkLogin, sign_in,
\* get_devices) is caught and logged, never leaves the didFinishLaunching
\* handler, and leaves no managed vacuum, no accessory registered or
\* unregistered and no polling timer started.
C11_StartupFailureIsContained ==
    /\ ~escaped
    /\ loginError # "none" =>
          /\ pc = "done"
          /\ vacuumDevices = {}
          /\ registered = {}
          /\ unregistered = {}
          /\ DOMAIN pollers = {}

\* get_devices has failed, the last step that can, with a device to manage
\* and a cached accessory at hand
C11_Witness ==
    /\ calls = <<"checkLogin", "sign_in", "get_devices">>
    /\ loginError = "TransportError"
    /\ pc = "done"
    /\ MatchingDevices(accountDevices, config.vacuums) # {}
    /\ accessories # {}

\* the UUIDs of the vacuums the account holds and the configuration names
ManagedUuids == {Uuid(d) : d \in accountDevices \cap config.vacuums.items}

\* the step that ends an initialization whose login succeeded
LoginSucceeds == pc = "get_devices" /\ pc' = "done" /\ loginError' = "none"

\* C16 (as claimed): after a successful login every cached accessory of no
\* managed vacuum has been unregistered, every managed vacuum without a
\* cached accessory has had one accessory registered, and none is both,
\* also when no discovered device matches the configured DSNs.
C16_AccessoriesReconciled ==
    [][LoginSucceeds =>
         /\ unregistered' = accessories \ ManagedUuids
         /\ registered' = ManagedUuids \ accessories
         /\ registered' \cap unregistered' = {}]_vars

\* C16 (amended): the same when at least one discovered device matches; when
\* none matches, nothing is registered and nothing is unregistered.
C16_AccessoriesReconciledIfAnyMatch ==
    [][LoginSucceeds =>
         /\ unregistered' =
              IF ManagedUuids = {} THEN {} ELSE accessories \ ManagedUuids
         /\ registered' = ManagedUuids \ accessories
         /\ registered' \cap unregistered' = {}
         /\ accessories' = accessories \cup registered']_vars

\* two vacuums managed, one with a cached accessory and one without, and a
\* cached accessory of a vacuum that is gone
C16_Witness ==
    /\ pc = "done"
    /\ vacuumDevices = {"A", "B"}
    /\ registered = {Uuid("B")}
    /\ unregistered = {Uuid("Z")}
    /\ Uuid("A") \in accessories

\* C17: the startup calls are made in the order checkLogin, sign_in,
\* get_devices, each only while no earlier one has failed; a failure ends
\* the startup; vacuums are managed, accessories registered or unregistered
\* and polling started only after all three calls, with none failed.
C17_StartupCallsInOrder ==
    /\ calls \in {<< >>, <<"checkLogin">>, <<"checkLogin", "sign_in">>,
                   <<"checkLogin", "sign_in", "get_devices">>}
    /\ pc \in {"checkLogin", "sign_in", "get_devices"} =>
          /\ calls # << >>
          /\ calls[Len(calls)] = pc
          /\ loginError = "none"
    /\ loginError # "none" => pc = "done"
    /\ (vacuumDevices # {} \/ registered # {} \/ unregistered # {}
          \/ DOMAIN pollers # {}) =>
          /\ calls = <<"checkLogin", "sign_in", "get_devices">>
          /\ loginError = "none"
          /\ pc = "done"

\* sign_in has failed after checkLogin succeeded: get_devices was not called
C17_Witness ==
    /\ calls = <<"checkLogin", "sign_in">>
    /\ loginError = "AuthenticationError"
    /\ pc = "done"
    /\ MatchingDevices(accountDevices, config.vacuums) # {}


\* C12 (as claimed): when the fetch of an on-demand docked read fails, the
\* caller gets the last-known-good docked value or the failure itself, never
\* a docked value that no successful fetch produced.
C12_FailedReadServesLastKnownGood ==
    lastOp = "retrieveDockedStatusFail" =>
        \/ returned = "error"
        \/ lastKnownStates.docked # Null /\ returned = lastKnownStates.docked


\* the steps of retrieveDockedStatus: the call and its two completions
DockedReadOps ==
    {"retrieveDockedStatus", "retrieveDockedStatusOk", "retrieveDockedStatusFail"}

\* C18: a step of an on-demand docked read, whether its fetch succeeds or
\* fails, leaves lastKnownStates and the pending debounce timer as they were
\* and calls updateCharacteristic for nothing; lastKnownStates is written by
\* the completion of retrieveVacuumStates and by no other step.
C18_DockedReadHasNoSideEffect ==
    [][/\ lastOp' \in DockedReadOps =>
            /\ lastKnownStates' = lastKnownStates
            /\ timers' = timers
            /\ retrieveStatesTimer' = retrieveStatesTimer
            /\ emitted' = NoEvents
       /\ lastKnownStates' # lastKnownStates =>
            lastOp' = "retrieveVacuumStatesOk"]_vars

\* C18 witness: a docked read has returned a fetched value that differs from
\* the cached one, with a debounced refresh pending.
C18_Witness ==
    /\ lastOp = "retrieveDockedStatusOk"
    /\ lastKnownStates.docked # Null
    /\ returned # lastKnownStates.docked
    /\ DOMAIN timers # {}


\* the updateCharacteristic value that stands for each cached value
NotifiedFor ==
    [ContactSensorState |-> <<lastKnownStates.docked = "true">>,
     Active             |-> <<IF lastKnownStates.active = "true" THEN 1 ELSE 0>>,
     RotationSpeed      |->
        <<IF lastKnownStates.powerMode = "MAX" THEN 90
          ELSE IF lastKnownStates.powerMode = "ECO" THEN 30 ELSE 60>>]

CachedFor ==
    [ContactSensorState |-> lastKnownStates.docked,
     Active             |-> lastKnownStates.active,
     RotationSpeed      |-> lastKnownStates.powerMode]

\* C15: for each tracked property, whatever refreshes and docked reads
\* overlap, the cached value is null and nothing was ever notified for it, or
\* it is the value of the latest notification for it; and a notification
\* never carries the value of the one before it for the same property.
C15_CacheIsLastNotified ==
    /\ [](\A c \in TrackedCharacteristics :
             IF CachedFor[c] = Null
             THEN lastNotified[c] = << >>
             ELSE lastNotified[c] = NotifiedFor[c])
    /\ [][\A c \in TrackedCharacteristics :
             emitted'[c] # << >> =>
                 /\ Len(emitted'[c]) = 1
                 /\ emitted'[c] # lastNotified[c]]_vars

\* C15 witness: a refresh completes while another one is in flight, notifies
\* a docked change for the second time at least, and finds the activity
\* unchanged.
C15_Witness ==
    /\ lastOp = "retrieveVacuumStatesOk"
    /\ pollsInFlight > 0
    /\ emitted.ContactSensorState # << >>
    /\ emitted.Active = << >>
    /\ lastKnownStates.active # Null


\* the steps that call retrieveVacuumStatesWithDebounce
TriggerOps == {"intervalTick", "debounceScheduled", "debounceRescheduled"}

\* C13: at most one debounce timer is pending, and it is the one the handle
\* names; a call of retrieveVacuumStatesWithDebounce leaves exactly one
\* pending timer, newly armed with the full delay, whatever was pending
\* before; and the timer that fires is that latest one, so a cancelled one
\* never fires and none is left behind it.
C13_OnePendingDebounce ==
    /\ [](/\ Cardinality(DOMAIN timers) <= 1
          /\ DOMAIN timers \subseteq {retrieveStatesTimer})
    /\ [][/\ lastOp' \in TriggerOps =>
                /\ DOMAIN timers' = {retrieveStatesTimer'}
                /\ timers'[retrieveStatesTimer'] = TimerDelay(dockedUpdateInterval)
          /\ lastOp' = "debounceFire" =>
                /\ DOMAIN timers = {retrieveStatesTimer}
                /\ timers[retrieveStatesTimer] = 0
                /\ DOMAIN timers' = {}]_vars

\* C13 witness: a call arrived halfway through the window of a pending
\* timer and replaced it by one due a full delay later.
C13_Witness ==
    /\ lastOp = "debounceRescheduled"
    /\ intervalLeft < TimerDelay(dockedUpdateInterval)
    /\ intervalLeft > 0
    /\ DOMAIN timers = {retrieveStatesTimer}
    /\ timers[retrieveStatesTimer] = TimerDelay(dockedUpdateInterval)

\* C14: with the recurring timer as the only caller of the debounce, and
\* timer callbacks and device calls scheduled fairly, every tick of the
\* recurring timer is followed by a run of the debounce callback, which
\* begins a fetch.
C14_TickLeadsToFetch ==
    (lastOp = "intervalTick") ~> (lastOp = "debounceFire" /\ pollsInFlight > 0)

\* C14 witness: a debounced fetch has begun while the recurring timer, due
\* at the same instant, has yet to run.
C14_Witness ==
    /\ lastOp = "debounceFire"
    /\ pollsInFlight > 0
    /\ intervalLeft = 0
    /\ DOMAIN timers = {}

\* C19: setGoHome(true) sends one RETURN_TO_BASE command; when the command
\* settles, acknowledged or failed, nothing is thrown to the caller and the
\* reset of the switch is armed, and the switch is then set to off;
\* setGoHome(false) sends no command and arms no reset.
C19_GoHomeResetsSwitch ==
    /\ [][/\ lastOp' = "setGoHomeOn" =>
                /\ cmdsInFlight' = cmdsInFlight + 1
                /\ goHomeResets' = goHomeResets
          /\ lastOp' = "setGoHomeOff" =>
                /\ cmdsInFlight' = cmdsInFlight
                /\ goHomeResets' = goHomeResets
          /\ lastOp' \in {"setGoHomeSent", "setGoHomeFailed"} =>
                /\ cmdsInFlight' = cmdsInFlight - 1
                /\ goHomeResets' = goHomeResets + 1
                /\ returned' = "none"
          /\ lastOp' = "goHomeReset" => emitted'.On = <<FALSE>>]_vars
    /\ (lastOp = "setGoHomeOn") ~> (lastOp = "goHomeReset")

\* C19 witness: the command has failed, nothing was thrown to the caller and
\* the reset of the switch is armed.
C19_Witness ==
    /\ lastOp = "setGoHomeFailed"
    /\ returned = "none"
    /\ cmdsInFlight = 0
    /\ goHomeResets = 1

====
